---- MODULE Spec2Model ----
(***************************************************************************)
(* BranchWise: the pinia store 'app' (project registry and selection), and *)
(* the AddProject component that feeds it.                                 *)
(*                                                                         *)
(* A project is an object; Array.prototype.indexOf compares by identity,   *)
(* so a project is modelled by its identity, a number in Projects.  null   *)
(* is NULL.  The array `projects` is modelled by its contents, a sequence; *)
(* positions are 0-based as in the source.                                 *)
(***************************************************************************)
EXTENDS Integers, Sequences, FiniteSets, TLC

\* ---------------------------------------------------------------- bounds
NumProjects == 2        \* distinct project identities
MaxLen == 3             \* longest array `projects` the model lets addProject grow
MaxSetLen == 2          \* longest array a caller hands to setProjects
NumFlows == 2           \* openNewProject invocations that can be in flight

\* ------------------------------------------------------------- constants
NULL == 0
Projects == 1..NumProjects
Titles == {"BranchWise", "Other"}
Flows == 1..NumFlows
Dirs == {"dirA"}
Errors == {"not a git repository", "permission denied"}

RECURSIVE SeqsOfLen(_)
SeqsOfLen(n) ==
    IF n = 0 THEN {<<>>}
    ELSE {Append(s, p) : s \in SeqsOfLen(n - 1), p \in Projects}

RECURSIVE SeqsUpTo(_)
SeqsUpTo(n) == IF n = 0 THEN {<<>>} ELSE SeqsOfLen(n) \cup SeqsUpTo(n - 1)

\* The arrays a caller passes to setProjects.
ProjectLists == SeqsUpTo(MaxSetLen)

VARIABLES
    title,            \* state.title
    projects,         \* state.projects
    isNavbarOpen,     \* state.isNavbarOpen
    selectedProject,  \* state.selectedProject
    last,             \* the latest call: its name, argument and the state it ran in
    prev,             \* the call before the latest, kept when it was setCurrentProject
                      \* or toggleNavbar (the calls a two-call property starts with):
                      \* its name, its argument and isNavbarOpen when it was made
    adds,             \* arguments of the addProject calls, while nothing else was called
    onlyAdds,         \* TRUE while every call so far was addProject
    selArg,           \* argument of the latest setCurrentProject call
    selWasMember,     \* was that argument in projects when the call took effect
    flows,            \* per openNewProject invocation: where it is suspended, its
                      \* `result`, and what it has done so far
    starts,           \* the invocations in the order they started
    loads,            \* the invocations whose invoke() resolved, in that order,
                      \* each with the project it resolved with
    heap,             \* the array objects: the contents of each
    ref,              \* the array object state.projects refers to
    callerRef,        \* the array object a caller has built and holds ("none": none yet)
    got,              \* the array object a caller got from getProjects() ("none": none yet)
    passed,           \* the array object passed to the latest setProjects call
    lastRef,          \* `ref` before the latest call
    showExitDialog,   \* ToolbarComponent data.showExitDialog
    exited,           \* TRUE once exit() of plugin-process has been called
    appWindow,        \* the window: "normal", "minimized" or "maximized"
    lastToolbar       \* the toolbar's state before the latest step

storeVars == <<title, projects, isNavbarOpen, selectedProject>>
histVars == <<last, prev, adds, onlyAdds, selArg, selWasMember>>
flowVars == <<flows>>
orderVars == <<starts, loads>>
aliasVars == <<heap, ref, callerRef, got, passed, lastRef>>
toolbarVars == <<showExitDialog, exited, appWindow, lastToolbar>>
vars == <<title, projects, isNavbarOpen, selectedProject,
          last, prev, adds, onlyAdds, selArg, selWasMember,
          flows, starts, loads,
          heap, ref, callerRef, got, passed, lastRef,
          showExitDialog, exited, appWindow, lastToolbar>>

\* ------------------------------------------------------------- the store
\* The store's state as one value.
State ==
    [title |-> title, projects |-> projects,
     isNavbarOpen |-> isNavbarOpen, selectedProject |-> selectedProject]

state ==
    [title |-> "BranchWise", projects |-> <<>>,
     isNavbarOpen |-> FALSE, selectedProject |-> NULL]

getProjects == projects

getSelectedProject == selectedProject

\* Mutant of indexOf: Array.prototype.lastIndexOf.
lastIndexOf(s, x) ==
    IF \E i \in 1..Len(s) : s[i] = x
    THEN (CHOOSE i \in 1..Len(s) : s[i] = x /\ \A j \in (i + 1)..Len(s) : s[j] # x) - 1
    ELSE -1

\* Array.prototype.indexOf: 0-based position of the first element identical
\* to x, or -1.
indexOf(s, x) ==
    IF \E i \in 1..Len(s) : s[i] = x
    THEN (CHOOSE i \in 1..Len(s) : s[i] = x /\ \A j \in 1..(i - 1) : s[j] # x) - 1
    ELSE -1

\* Array.prototype.splice(index, 1): drops the element at 0-based index.
splice(s, index) ==
    [i \in 1..(Len(s) - 1) |-> IF i <= index THEN s[i] ELSE s[i + 1]]

\* Mutant of push: Array.prototype.unshift.
unshift(s, x) == <<x>> \o s

\* Array.prototype.push
push(s, x) == Append(s, x)

setTitle(st, t) == [st EXCEPT !.title = t]

\* Mutant of addProject: `this.projects = [git]`.
addProjectReplaces(st, git) == [st EXCEPT !.projects = <<git>>]

\* Mutant of addProject: the project added becomes the selection.
addProjectSelects(st, git) ==
    [st EXCEPT !.projects = push(@, git), !.selectedProject = git]

addProject(st, git) == [st EXCEPT !.projects = push(@, git)]

\* Mutant of setProjects: `this.projects = this.projects.concat(projects)`.
setProjectsConcat(st, L) == [st EXCEPT !.projects = @ \o L]

\* Mutant of setProjects: a selection that is not in the new array is cleared.
setProjectsReconciles(st, L) ==
    [st EXCEPT !.projects = L,
               !.selectedProject =
                   IF \E i \in 1..Len(L) : L[i] = @ THEN @ ELSE NULL]

setProjects(st, L) == [st EXCEPT !.projects = L]

\* removeProject(git = null): TRUE when the early `return` is taken.
removeProjectReturnsEarly(st, git) ==
    IF git = NULL /\ st.selectedProject # NULL
    THEN FALSE
    ELSE st.selectedProject = NULL

\* Mutant of removeProject: the selection is cleared when it is the project removed.
removeProjectClearsSelection(st, git) ==
    LET g == IF git = NULL /\ st.selectedProject # NULL
             THEN st.selectedProject
             ELSE git
        index == indexOf(st.projects, g)
    IN  IF removeProjectReturnsEarly(st, git) THEN st
        ELSE IF index > -1
             THEN [st EXCEPT !.projects = splice(@, index),
                             !.selectedProject = IF @ = g THEN NULL ELSE @]
             ELSE st

\* Mutant of removeProject: neither the early return nor the `index > -1` test;
\* splice(-1, 1) drops the last element.
removeProjectUnguarded(st, git) ==
    LET g == IF git = NULL /\ st.selectedProject # NULL
             THEN st.selectedProject
             ELSE git
        index == indexOf(st.projects, g)
    IN  IF index > -1
        THEN [st EXCEPT !.projects = splice(@, index)]
        ELSE IF st.projects = <<>> THEN st
             ELSE [st EXCEPT !.projects = splice(@, Len(@) - 1)]

\* Mutant of removeProject: the `index > -1` test is missing; splice(-1, 1)
\* drops the last element.
removeProjectNoIndexTest(st, git) ==
    LET g == IF git = NULL /\ st.selectedProject # NULL
             THEN st.selectedProject
             ELSE git
        index == indexOf(st.projects, g)
    IN  IF removeProjectReturnsEarly(st, git) THEN st
        ELSE IF index > -1
             THEN [st EXCEPT !.projects = splice(@, index)]
             ELSE IF st.projects = <<>> THEN st
                  ELSE [st EXCEPT !.projects = splice(@, Len(@) - 1)]

\* Mutant of removeProject: `delete this.projects[index]`, which leaves an
\* empty slot where the project was.
removeProjectLeavesHole(st, git) ==
    LET g == IF git = NULL /\ st.selectedProject # NULL
             THEN st.selectedProject
             ELSE git
        index == indexOf(st.projects, g)
    IN  IF removeProjectReturnsEarly(st, git) THEN st
        ELSE IF index > -1
             THEN [st EXCEPT !.projects = [@ EXCEPT ![index + 1] = NULL]]
             ELSE st

\* actions.removeProject.  Its closing console.log writes to the console only.
removeProject(st, git) ==
    LET g == IF git = NULL /\ st.selectedProject # NULL
             THEN st.selectedProject
             ELSE git
        index == indexOf(st.projects, g)
    IN  IF removeProjectReturnsEarly(st, git) THEN st
        ELSE IF index > -1
             THEN [st EXCEPT !.projects = splice(@, index)]
             ELSE st

\* The earlier revision of the store: removeProject(git) with a required argument.
removeProjectBase(st, git) ==
    LET index == indexOf(st.projects, git)
    IN  IF index > -1 THEN [st EXCEPT !.projects = splice(@, index)] ELSE st

\* Mutant of toggleNavbar: `this.isNavbarOpen = true`.
toggleNavbarOpens(st) == [st EXCEPT !.isNavbarOpen = TRUE]

toggleNavbar(st) == [st EXCEPT !.isNavbarOpen = ~@]

\* Mutant of setCurrentProject: a project that is not in projects is refused.
setCurrentProjectChecked(st, git) ==
    IF git = NULL \/ \E i \in 1..Len(st.projects) : st.projects[i] = git
    THEN [st EXCEPT !.selectedProject = git]
    ELSE st

setCurrentProject(st, git) == [st EXCEPT !.selectedProject = git]

\* ------------------------------------------------------- calls and history
NoCall == [op |-> "none", arg |-> NULL, list |-> <<>>, flow |-> 0, pre |-> state]
NoPrev == [op |-> "other", arg |-> NULL, navbar |-> FALSE]

Commit(new) ==
    /\ title' = new.title
    /\ projects' = new.projects
    /\ isNavbarOpen' = new.isNavbarOpen
    /\ selectedProject' = new.selectedProject

\* A call of a store action from a view: the store moves to `new`.
\* `arg` is its project argument (NULL when it has none or null is passed),
\* `list` its array argument (setProjects), `flow` the openNewProject
\* invocation that makes the call (0: some other view).
Step(op, arg, list, flow, new) ==
    /\ Commit(new)
    /\ last' = [op |-> op, arg |-> arg, list |-> list, flow |-> flow, pre |-> State]
    /\ prev' = IF last.op \in {"setCurrentProject", "toggleNavbar"}
               THEN [op |-> last.op, arg |-> last.arg,
                     navbar |-> last.pre.isNavbarOpen]
               ELSE NoPrev
    /\ onlyAdds' = (onlyAdds /\ op = "addProject")
    /\ adds' = IF onlyAdds /\ op = "addProject" THEN Append(adds, arg) ELSE <<>>
    /\ IF op = "setCurrentProject"
       THEN /\ selArg' = arg
            /\ selWasMember' = (\E i \in 1..Len(projects) : projects[i] = arg)
       ELSE UNCHANGED <<selArg, selWasMember>>

Call(op, arg, list, new) == Step(op, arg, list, 0, new)

InitStore ==
    /\ title = state.title
    /\ projects = state.projects
    /\ isNavbarOpen = state.isNavbarOpen
    /\ selectedProject = state.selectedProject

InitHist ==
    /\ last = NoCall
    /\ prev = NoPrev
    /\ adds = <<>>
    /\ onlyAdds = TRUE
    /\ selArg = NULL
    /\ selWasMember = FALSE

\* An invocation of openNewProject that has not started.
\*   pc       "idle", "open" (awaiting open()), "invoke" (awaiting invoke()), "done"
\*   result   what open() resolved with
\*   outcome  "none", "cancelled", "openRejected", "failed", "added"
\*   calls    store actions it has called
\*   invokes  invoke("open_git_project") calls it has made
\*   shown    the arguments of its showError calls
\*   reason   what invoke() rejected with
\*   escaped  TRUE when openNewProject's promise rejected
\*   start    projects when it started
\*   dirty    TRUE when another invocation has changed the store since it started
NoFlow ==
    [pc |-> "idle", result |-> "", outcome |-> "none", calls |-> 0, invokes |-> 0,
     shown |-> <<>>, reason |-> "", escaped |-> FALSE, start |-> <<>>, dirty |-> FALSE]

InitFlows == flows = [f \in Flows |-> NoFlow]

\* The flows after invocation f moved to fl (f = 0: no invocation moved);
\* `wrote` says that the step changed projects.
FlowsAfter(f, fl, wrote) ==
    [g \in Flows |->
        IF g = f THEN fl
        ELSE IF wrote /\ flows[g].pc # "idle" THEN [flows[g] EXCEPT !.dirty = TRUE]
        ELSE flows[g]]

\* The toolbar's state as one value.
Toolbar ==
    [showExitDialog |-> showExitDialog, exited |-> exited, appWindow |-> appWindow]

\* ToolbarComponent data(), in a running process with its window as created.
data == [showExitDialog |-> FALSE, exited |-> FALSE, appWindow |-> "normal"]

\* A step in which the toolbar does nothing.
ToolbarIdle ==
    /\ lastToolbar' = Toolbar
    /\ UNCHANGED <<showExitDialog, exited, appWindow>>

\* The array objects: the one state() creates, one a caller builds, and one
\* more that only a copying store would allocate.
Arrays == {"initial", "L", "fresh"}

\* A call of a store action from a view other than AddProject.
ViewCall(op, arg, list, new) ==
    /\ Call(op, arg, list, new)
    /\ flows' = FlowsAfter(0, NoFlow, new.projects # projects)
    /\ UNCHANGED <<orderVars, aliasVars>>
    /\ ToolbarIdle

InitOrder ==
    /\ starts = <<>>
    /\ loads = <<>>

InitAlias ==
    /\ heap = [a \in Arrays |-> <<>>]
    /\ ref = "initial"
    /\ callerRef = "none"
    /\ got = "none"
    /\ passed = "none"
    /\ lastRef = "initial"

InitToolbar ==
    /\ showExitDialog = data.showExitDialog
    /\ exited = data.exited
    /\ appWindow = data.appWindow
    /\ lastToolbar = data

Init == InitStore /\ InitHist /\ InitFlows /\ InitOrder /\ InitAlias /\ InitToolbar

SetTitle ==
    \E t \in Titles :
        /\ ViewCall("setTitle", NULL, <<>>, setTitle(State, t))

AddProject ==
    \E git \in Projects :
        /\ Len(projects) < MaxLen
        /\ ViewCall("addProject", git, <<>>, addProject(State, git))

SetProjects ==
    \E L \in ProjectLists :
        /\ ViewCall("setProjects", NULL, L, setProjects(State, L))

RemoveProject ==
    \E git \in Projects \cup {NULL} :
        /\ ViewCall("removeProject", git, <<>>, removeProject(State, git))

ToggleNavbar ==
    /\ ViewCall("toggleNavbar", NULL, <<>>, toggleNavbar(State))

SetCurrentProject ==
    \E git \in Projects \cup {NULL} :
        /\ ViewCall("setCurrentProject", git, <<>>, setCurrentProject(State, git))

Next ==
    \/ SetTitle
    \/ AddProject
    \/ SetProjects
    \/ RemoveProject
    \/ ToggleNavbar
    \/ SetCurrentProject

Spec == Init /\ [][Next]_vars

\* ------------------------------------------- the AddProject component
\* `if (result)`: open() resolves with a path, or with null when the picker
\* is dismissed.
Truthy(result) == result \notin {"null", ""}

OpenResults == Dirs \cup {"null"}

\* Mutant of afterOpen: the `if (result)` test is missing.
afterOpenUnchecked(st, fl, result) ==
    [store |-> st,
     flow |-> [fl EXCEPT !.pc = "invoke", !.result = result, !.invokes = @ + 1]]

\* openNewProject from the point where `await open(...)` resolves with
\* `result`, up to the next await or the end.
afterOpen(st, fl, result) ==
    IF Truthy(result)
    THEN [store |-> st,
          flow |-> [fl EXCEPT !.pc = "invoke", !.result = result, !.invokes = @ + 1]]
    ELSE [store |-> st,
          flow |-> [fl EXCEPT !.pc = "done", !.result = result, !.outcome = "cancelled"]]

\* Mutant of afterInvoke: the array read when the invocation started is
\* written back with the project appended.
afterInvokeStale(st, fl, project) ==
    [store |-> [st EXCEPT !.projects = Append(fl.start, project)],
     flow |-> [fl EXCEPT !.pc = "done", !.outcome = "added", !.calls = @ + 1]]

\* The rest of the try block, once `await invoke(...)` resolves with `project`.
afterInvoke(st, fl, project) ==
    [store |-> addProject(st, project),
     flow |-> [fl EXCEPT !.pc = "done", !.outcome = "added", !.calls = @ + 1]]

\* Mutant of catchInvoke: the failed load leaves a placeholder entry.
catchInvokePlaceholder(st, fl, error) ==
    [store |-> addProject(st, NULL),
     flow |-> [fl EXCEPT !.pc = "done", !.outcome = "failed", !.reason = error,
                         !.calls = @ + 1, !.shown = Append(@, error)]]

\* The catch block, when `await invoke(...)` rejects with `error`.
catchInvoke(st, fl, error) ==
    [store |-> st,
     flow |-> [fl EXCEPT !.pc = "done", !.outcome = "failed", !.reason = error,
                         !.shown = Append(@, error)]]

\* A step of invocation f that calls no store action.
FlowStep(op, f) ==
    /\ last' = [op |-> op, arg |-> NULL, list |-> <<>>, flow |-> f, pre |-> State]
    /\ UNCHANGED <<prev, adds, onlyAdds, selArg, selWasMember>>

\* A click on the component: openNewProject runs up to `await open(...)`.
OpenNewProject(f) ==
    /\ flows[f].pc = "idle"
    /\ flows' = [flows EXCEPT ![f] = [@ EXCEPT !.pc = "open", !.start = projects]]
    /\ FlowStep("openNewProject", f)
    /\ UNCHANGED <<storeVars, aliasVars>>
    /\ ToolbarIdle

\* The picker closes: with a directory, or dismissed.
OpenFulfilled(f) ==
    \E result \in OpenResults :
        LET r == afterOpen(State, flows[f], result) IN
        /\ flows[f].pc = "open"
        /\ Commit(r.store)
        /\ flows' = FlowsAfter(f, r.flow, r.store.projects # projects)
        /\ FlowStep("openFulfilled", f)
        /\ UNCHANGED aliasVars
        /\ ToolbarIdle

\* open() rejects: nothing in openNewProject catches it.
OpenRejected(f) ==
    /\ flows[f].pc = "open"
    /\ flows' = [flows EXCEPT ![f] =
                    [@ EXCEPT !.pc = "done", !.outcome = "openRejected", !.escaped = TRUE]]
    /\ FlowStep("openRejected", f)
    /\ UNCHANGED <<storeVars, aliasVars>>
    /\ ToolbarIdle

\* open_git_project returns the project.
InvokeFulfilled(f) ==
    \E project \in Projects :
        LET r == afterInvoke(State, flows[f], project) IN
        /\ flows[f].pc = "invoke"
        /\ flows' = FlowsAfter(f, r.flow, r.store.projects # projects)
        /\ Step("addProject", project, <<>>, f, r.store)
        /\ UNCHANGED aliasVars
        /\ ToolbarIdle

\* open_git_project fails.
InvokeRejected(f) ==
    \E error \in Errors :
        LET r == catchInvoke(State, flows[f], error) IN
        /\ flows[f].pc = "invoke"
        /\ Commit(r.store)
        /\ flows' = FlowsAfter(f, r.flow, r.store.projects # projects)
        /\ FlowStep("invokeRejected", f)
        /\ UNCHANGED aliasVars
        /\ ToolbarIdle

\* The component at work, while other views select and remove projects.
NextAdd ==
    \/ \E f \in Flows :
        \/ OpenNewProject(f) /\ UNCHANGED orderVars
        \/ OpenFulfilled(f) /\ UNCHANGED orderVars
        \/ OpenRejected(f) /\ UNCHANGED orderVars
        \/ InvokeFulfilled(f) /\ UNCHANGED orderVars
        \/ InvokeRejected(f) /\ UNCHANGED orderVars
    \/ RemoveProject
    \/ SetCurrentProject

SpecAdd == Init /\ [][NextAdd]_vars

\* Several clicks on the component and nothing else at work, with the order
\* of the starts and of the loads recorded.
Started(f) == starts' = Append(starts, f) /\ UNCHANGED loads

Loaded(f) == loads' = Append(loads, [flow |-> f, project |-> last'.arg]) /\ UNCHANGED starts

NextFlows ==
    \E f \in Flows :
        \/ OpenNewProject(f) /\ Started(f)
        \/ OpenFulfilled(f) /\ UNCHANGED orderVars
        \/ OpenRejected(f) /\ UNCHANGED orderVars
        \/ InvokeFulfilled(f) /\ Loaded(f)
        \/ InvokeRejected(f) /\ UNCHANGED orderVars

SpecFlows == Init /\ [][NextFlows]_vars

\* ------------------------------------- the array object behind `projects`
\* Here `projects` stays the contents of the array state.projects refers
\* to, and the array objects themselves are kept in `heap`.

\* Mutant of assignProjects: `this.projects = [...projects]`.
assignProjectsCopy(h, r, a) ==
    [heap |-> [h EXCEPT !["fresh"] = h[a]], ref |-> "fresh"]

\* `this.projects = projects`: state.projects refers to the object passed.
assignProjects(h, r, a) == [heap |-> h, ref |-> a]

\* Mutant of mutateProjects: the result goes to a new array, which
\* state.projects then refers to.
mutateProjectsCopy(h, r, contents) ==
    [heap |-> [h EXCEPT !["fresh"] = contents], ref |-> "fresh"]

\* this.projects.push(git), this.projects.splice(index, 1): the array that
\* state.projects refers to gets new contents, and stays the one referred to.
mutateProjects(h, r, contents) == [heap |-> [h EXCEPT ![r] = contents], ref |-> r]

\* A step of the caller that calls no store action.
CallerStep(op) ==
    /\ FlowStep(op, 0)
    /\ UNCHANGED <<storeVars, flowVars, orderVars>>
    /\ ToolbarIdle

\* A call of a store action that leaves the array objects as `r` says.
AliasCall(op, arg, list, new, r) ==
    /\ Call(op, arg, list, new)
    /\ heap' = r.heap
    /\ ref' = r.ref
    /\ lastRef' = ref
    /\ UNCHANGED <<flowVars, orderVars>>
    /\ ToolbarIdle

\* The caller builds an array L.
NewArray ==
    \E L \in ProjectLists :
        /\ callerRef = "none"
        /\ heap' = [heap EXCEPT !["L"] = L]
        /\ callerRef' = "L"
        /\ lastRef' = ref
        /\ UNCHANGED <<ref, got, passed>>
        /\ CallerStep("newArray")

\* The caller keeps what getProjects() returns.
GetProjects ==
    /\ got' = ref
    /\ lastRef' = ref
    /\ UNCHANGED <<heap, ref, callerRef, passed>>
    /\ CallerStep("getProjects")

\* setProjects(a), with an array the caller holds.
SetProjectsOf ==
    \E a \in {callerRef, got} \ {"none"} :
        /\ AliasCall("setProjects", NULL, heap[a], setProjects(State, heap[a]),
                     assignProjects(heap, ref, a))
        /\ passed' = a
        /\ UNCHANGED <<callerRef, got>>

AddProjectInPlace ==
    \E git \in Projects :
        LET new == addProject(State, git) IN
        /\ Len(projects) < MaxSetLen
        /\ AliasCall("addProject", git, <<>>, new,
                     mutateProjects(heap, ref, new.projects))
        /\ UNCHANGED <<callerRef, got, passed>>

RemoveProjectInPlace ==
    \E git \in Projects \cup {NULL} :
        LET new == removeProject(State, git) IN
        /\ AliasCall("removeProject", git, <<>>, new,
                     IF new.projects = projects
                     THEN [heap |-> heap, ref |-> ref]
                     ELSE mutateProjects(heap, ref, new.projects))
        /\ UNCHANGED <<callerRef, got, passed>>

SelectProject ==
    \E git \in Projects \cup {NULL} :
        /\ AliasCall("setCurrentProject", git, <<>>, setCurrentProject(State, git),
                     [heap |-> heap, ref |-> ref])
        /\ UNCHANGED <<callerRef, got, passed>>

NextAlias ==
    \/ NewArray
    \/ GetProjects
    \/ SetProjectsOf
    \/ AddProjectInPlace
    \/ RemoveProjectInPlace
    \/ SelectProject

SpecAlias == Init /\ [][NextAlias]_vars

\* ------------------------------------------------ the ToolbarComponent
MenuTitles == {"Minimize", "Maximize", "Exit"}

switchExitDialog(tb) == [tb EXCEPT !.showExitDialog = TRUE]

\* exit() of @tauri-apps/plugin-process: the process ends.
exit(tb) == [tb EXCEPT !.exited = TRUE]

\* Mutant of menuItems: the "Exit" item calls exit() itself.
menuItemsExitAtOnce(tb, item) ==
    CASE item = "Minimize" -> [tb EXCEPT !.appWindow = "minimized"]
      [] item = "Maximize" -> [tb EXCEPT !.appWindow = "maximized"]
      [] item = "Exit" -> exit(tb)

\* data().menuItems: what the `function` of the item with this title does.
menuItems(tb, item) ==
    CASE item = "Minimize" -> [tb EXCEPT !.appWindow = "minimized"]
      [] item = "Maximize" -> [tb EXCEPT !.appWindow = "maximized"]
      [] item = "Exit" -> switchExitDialog(tb)

\* The Cancel button of the dialog: `showExitDialog = false`.
cancelExitDialog(tb) == [tb EXCEPT !.showExitDialog = FALSE]

\* The name under which a click on a menu item is recorded in `last`.
MenuOp(item) ==
    CASE item = "Minimize" -> "menuMinimize"
      [] item = "Maximize" -> "menuMaximize"
      [] item = "Exit" -> "menuExit"

\* A step of the toolbar that calls no store action: it moves to `new`.
ToolbarStep(op, new) ==
    /\ showExitDialog' = new.showExitDialog
    /\ exited' = new.exited
    /\ appWindow' = new.appWindow
    /\ lastToolbar' = Toolbar
    /\ FlowStep(op, 0)
    /\ UNCHANGED <<storeVars, flowVars, orderVars, aliasVars>>

\* A click on an item of the menu.
MenuClick ==
    \E item \in MenuTitles :
        /\ ~exited
        /\ ToolbarStep(MenuOp(item), menuItems(Toolbar, item))

\* The buttons of the dialog are there only while the dialog is shown
\* (v-model="showExitDialog"; `persistent`: nothing else closes it).
DialogCancel ==
    /\ ~exited
    /\ showExitDialog
    /\ ToolbarStep("dialogCancel", cancelExitDialog(Toolbar))

DialogExit ==
    /\ ~exited
    /\ showExitDialog
    /\ ToolbarStep("exit", exit(Toolbar))

\* A click on the icon or the title: ToolbarComponent.toggleNavbar.
ToolbarToggleNavbar ==
    /\ ~exited
    /\ ToggleNavbar

\* The title shown by the toolbar changes.
ToolbarSetTitle ==
    /\ ~exited
    /\ SetTitle

NextToolbar ==
    \/ MenuClick
    \/ DialogCancel
    \/ DialogExit
    \/ ToolbarToggleNavbar
    \/ ToolbarSetTitle

SpecToolbar == Init /\ [][NextToolbar]_vars

\* ------------------------------------------------ vocabulary of the claims
Contains(s, x) == \E i \in 1..Len(s) : s[i] = x

Count(s, x) == Cardinality({i \in 1..Len(s) : s[i] = x})

\* s without its first occurrence of x; s itself when x does not occur.
RECURSIVE RemoveFirst(_, _)
RemoveFirst(s, x) ==
    IF s = <<>> THEN <<>>
    ELSE IF Head(s) = x THEN Tail(s)
    ELSE <<Head(s)>> \o RemoveFirst(Tail(s), x)

\* selectedProject is absent or an element of projects, in store state st.
SelectionInProjects(st) ==
    st.selectedProject = NULL \/ Contains(st.projects, st.selectedProject)

\* ------------------------------------------------------------------ C1
\* C1: removeProject(p) with an explicit project p leaves projects equal to
\* the array before the call without its first occurrence of p (the same
\* array when p is not in it), whatever selectedProject is.
C1_RemoveExplicit ==
    (last.op = "removeProject" /\ last.arg # NULL)
        => projects = RemoveFirst(last.pre.projects, last.arg)

\* The earlier revision of removeProject does what C1 says, in the very states
\* where the current one does not.
C1_BaseRevisionRemoves ==
    (last.op = "removeProject" /\ last.arg # NULL)
        => removeProjectBase(last.pre, last.arg).projects
               = RemoveFirst(last.pre.projects, last.arg)

\* ------------------------------------------------------------------ C2
\* C2: removeProject() with no argument, called while selectedProject is a
\* project s that occurs in projects, removes the first occurrence of s and
\* keeps the other entries in order.
C2_RemoveSelected ==
    (/\ last.op = "removeProject"
     /\ last.arg = NULL
     /\ last.pre.selectedProject # NULL
     /\ Contains(last.pre.projects, last.pre.selectedProject))
        => /\ projects = RemoveFirst(last.pre.projects, last.pre.selectedProject)
           /\ Len(projects) = Len(last.pre.projects) - 1

C2_Witness ==
    /\ last.op = "removeProject"
    /\ last.arg = NULL
    /\ last.pre.selectedProject = 1
    /\ last.pre.projects = <<1, 2, 1>>
    /\ projects = <<2, 1>>

\* ------------------------------------------------------------------ C3
\* C3 as stated: after setCurrentProject(p); removeProject(p) with p in
\* projects, the selection is still p and projects no longer contains p.
C3_SelectionStaysProjectGone ==
    (/\ prev.op = "setCurrentProject"
     /\ last.op = "removeProject"
     /\ last.arg # NULL
     /\ prev.arg = last.arg
     /\ Contains(last.pre.projects, last.arg))
        => /\ getSelectedProject = last.arg
           /\ ~Contains(getProjects, last.arg)

\* C3 as amended: after setCurrentProject(p); removeProject(p) with p in
\* projects, the selection is still p and projects has lost the first
\* occurrence of p; it still contains p exactly when p occurred more than once.
C3_SelectionStaysFirstGone ==
    (/\ prev.op = "setCurrentProject"
     /\ last.op = "removeProject"
     /\ last.arg # NULL
     /\ prev.arg = last.arg
     /\ Contains(last.pre.projects, last.arg))
        => /\ getSelectedProject = last.arg
           /\ getProjects = RemoveFirst(last.pre.projects, last.arg)
           /\ Contains(getProjects, last.arg) <=> Count(last.pre.projects, last.arg) > 1

C3_Witness ==
    /\ prev.op = "setCurrentProject"
    /\ prev.arg = 1
    /\ last.op = "removeProject"
    /\ last.arg = 1
    /\ last.pre.projects = <<2, 1>>
    /\ getProjects = <<2>>
    /\ getSelectedProject = 1

\* ------------------------------------------------------------------ C4
\* C4 as stated: selectedProject is absent or an element of projects.
C4_SelectionAlwaysInProjects == SelectionInProjects(State)

\* C4 as amended: from a state where selectedProject is absent or in
\* projects, the calls addProject, setTitle, toggleNavbar, and
\* setCurrentProject with null or with an element of projects, lead to a
\* state where it is absent or in projects again.
C4_SelectionKeptInProjects ==
    (/\ SelectionInProjects(last.pre)
     /\ \/ last.op \in {"addProject", "setTitle", "toggleNavbar"}
        \/ /\ last.op = "setCurrentProject"
           /\ last.arg = NULL \/ Contains(last.pre.projects, last.arg))
        => SelectionInProjects(State)

C4_Witness ==
    /\ last.op = "addProject"
    /\ last.pre.selectedProject = 1
    /\ last.pre.projects = <<2, 1>>
    /\ last.arg = 2
    /\ selectedProject = 1

\* ------------------------------------------------------------------ C5
\* C5 as stated (I1): a present selectedProject was an element of projects
\* when the setCurrentProject call that selected it took effect.
C5_SelectedWasInProjects == selectedProject # NULL => selWasMember

\* C5 as amended: selectedProject is the argument of the latest
\* setCurrentProject call (absent before the first one), whether or not that
\* project was in projects then.
C5_SelectedIsLatestArgument == getSelectedProject = selArg

C5_Witness ==
    /\ selectedProject # NULL
    /\ ~selWasMember
    /\ last.op = "removeProject"
    /\ last.pre.projects # projects

\* ------------------------------------------------------------------ C6
\* C6: after addProject(p1); ...; addProject(pn) from the initial store,
\* getProjects() is <<p1, ..., pn>>; addProject(p) on an array L gives L with
\* p appended.
C6_AppendOrder ==
    /\ onlyAdds => getProjects = adds
    /\ last.op = "addProject" => getProjects = last.pre.projects \o <<last.arg>>

C6_Witness ==
    /\ onlyAdds
    /\ adds = <<2, 1, 2>>
    /\ last.op = "addProject"

\* ------------------------------------------------------------------ C9
\* C9: removeProject() with no argument, called while selectedProject is
\* absent, changes nothing in the store.
C9_RemoveNothingSelected ==
    (/\ last.op = "removeProject"
     /\ last.arg = NULL
     /\ last.pre.selectedProject = NULL)
        => State = last.pre

C9_Witness ==
    /\ last.op = "removeProject"
    /\ last.arg = NULL
    /\ last.pre.selectedProject = NULL
    /\ projects = <<1, 2>>

\* ------------------------------------------------------------------ C10
\* C10: after setProjects(L), getProjects() is L whatever projects held and
\* whatever is selected, and selectedProject is what it was.
C10_SetProjectsReplaces ==
    last.op = "setProjects"
        => /\ getProjects = last.list
           /\ selectedProject = last.pre.selectedProject
           /\ State = [last.pre EXCEPT !.projects = last.list]

C10_Witness ==
    /\ last.op = "setProjects"
    /\ last.list = <<2>>
    /\ last.pre.projects = <<1, 1, 2>>
    /\ selectedProject = 1

\* ------------------------------------------------------------------ C7
\* C7: when the picker returned a path and open_git_project failed, the
\* invocation has called no store action, the step that handles the failure
\* leaves the store as it was, projects has no placeholder and (when no other
\* invocation changed the store meanwhile) is what it was when the invocation
\* started, showError was called exactly once, with the failure, and
\* openNewProject did not reject.
C7_FailedAddIsAtomic ==
    /\ \A f \in Flows :
        flows[f].outcome = "failed"
            => /\ Truthy(flows[f].result)
               /\ flows[f].calls = 0
               /\ flows[f].shown = <<flows[f].reason>>
               /\ ~flows[f].escaped
               /\ ~flows[f].dirty => getProjects = flows[f].start
    /\ last.op = "invokeRejected"
            => /\ State = last.pre
               /\ flows[last.flow].outcome = "failed"
    /\ ~Contains(getProjects, NULL)

C7_Witness ==
    /\ last.op = "invokeRejected"
    /\ flows[last.flow].outcome = "failed"
    /\ flows[last.flow].reason = "permission denied"
    /\ flows[last.flow].start = <<>>
    /\ flows[last.flow].dirty
    /\ projects = <<1>>

\* ------------------------------------------------------------------ C8
\* C8: when the picker is dismissed, the step that handles it leaves the
\* whole store as it was and ends the invocation, which has called no store
\* action, has not called open_git_project and has not called showError.
C8_CancelDoesNothing ==
    /\ \A f \in Flows :
        flows[f].outcome = "cancelled"
            => /\ ~Truthy(flows[f].result)
               /\ flows[f].pc = "done"
               /\ flows[f].calls = 0
               /\ flows[f].invokes = 0
               /\ flows[f].shown = <<>>
               /\ ~flows[f].escaped
    /\ (last.op = "openFulfilled" /\ ~Truthy(flows[last.flow].result))
            => /\ State = last.pre
               /\ flows[last.flow].outcome = "cancelled"

C8_Witness ==
    /\ last.op = "openFulfilled"
    /\ flows[last.flow].outcome = "cancelled"
    /\ projects = <<2>>

\* ------------------------------------------------------------------ C11
\* C11: setCurrentProject(x) makes getSelectedProject() return x, whether x
\* is in projects, is not in projects, or is null; nothing else in the store
\* changes.
C11_SetCurrentProjectUnconditional ==
    last.op = "setCurrentProject"
        => /\ getSelectedProject = last.arg
           /\ getProjects = last.pre.projects
           /\ State = [last.pre EXCEPT !.selectedProject = last.arg]

C11_Witness ==
    /\ last.op = "setCurrentProject"
    /\ last.arg = 2
    /\ last.pre.projects = <<1, 1>>
    /\ last.pre.selectedProject = 1
    /\ getSelectedProject = 2

\* ------------------------------------------------------------------ C12
\* C12: addProject, setProjects, removeProject (with or without argument,
\* whether or not it removes the selected project), setTitle and toggleNavbar
\* leave selectedProject as it was.
C12_OnlySetCurrentProjectSelects ==
    last.op \in {"addProject", "setProjects", "removeProject", "setTitle", "toggleNavbar"}
        => selectedProject = last.pre.selectedProject

C12_Witness ==
    /\ last.op = "removeProject"
    /\ last.arg = NULL
    /\ last.pre.selectedProject = 1
    /\ last.pre.projects = <<1>>
    /\ projects = <<>>
    /\ selectedProject = 1

\* ------------------------------------------------------------------ C13
\* C13: removeProject called with a project that is not in projects, or with
\* no argument while the selection is absent or is not in projects, completes
\* and leaves the store as it was.
C13_RemoveNotFoundIsNoOp ==
    (/\ last.op = "removeProject"
     /\ \/ last.arg # NULL /\ ~Contains(last.pre.projects, last.arg)
        \/ /\ last.arg = NULL
           /\ \/ last.pre.selectedProject = NULL
              \/ ~Contains(last.pre.projects, last.pre.selectedProject))
        => /\ getProjects = last.pre.projects
           /\ State = last.pre

C13_Witness ==
    /\ last.op = "removeProject"
    /\ last.arg = NULL
    /\ last.pre.selectedProject = 1
    /\ last.pre.projects = <<2, 2>>
    /\ projects = <<2, 2>>

\* ------------------------------------------------------------------ C14
\* C14: one toggleNavbar() negates isNavbarOpen and changes nothing else in
\* the store; toggleNavbar(); toggleNavbar() gives isNavbarOpen the value it
\* had before the two calls.
C14_ToggleInvolutive ==
    /\ last.op = "toggleNavbar"
            => /\ isNavbarOpen = ~last.pre.isNavbarOpen
               /\ State = [last.pre EXCEPT !.isNavbarOpen = ~last.pre.isNavbarOpen]
    /\ (prev.op = "toggleNavbar" /\ last.op = "toggleNavbar")
            => isNavbarOpen = prev.navbar

C14_Witness ==
    /\ prev.op = "toggleNavbar"
    /\ last.op = "toggleNavbar"
    /\ prev.navbar
    /\ isNavbarOpen
    /\ projects = <<1, 2>>
    /\ selectedProject = 2

\* ------------------------------------------------------------------ C15
\* C15 (I2): with projects (never null) as arguments, no state reached through
\* addProject, setProjects and removeProject has a null entry in projects.
\* (C7_FailedAddIsAtomic states the same of the states the AddProject
\* component reaches.)
C15_NoPlaceholder ==
    \A i \in 1..Len(getProjects) : getProjects[i] \in Projects

C15_Witness ==
    /\ last.op = "removeProject"
    /\ last.arg = 2
    /\ last.pre.projects = <<1, 2, 1>>
    /\ getProjects = <<1, 1>>

\* ------------------------------------------------------------------ C16
\* C16: with several openNewProject invocations in flight, projects is
\* exactly the projects of the invocations whose load succeeded, one entry
\* each, in the order in which the loads completed (which need not be the
\* order in which the invocations started); an invocation that was cancelled
\* or whose load failed has called no store action and has no entry.
C16_OneEntryPerLoadInLoadOrder ==
    /\ getProjects = [i \in 1..Len(loads) |-> loads[i].project]
    /\ \A f \in Flows :
        /\ flows[f].outcome = "added"
            => /\ flows[f].calls = 1
               /\ Cardinality({i \in 1..Len(loads) : loads[i].flow = f}) = 1
        /\ flows[f].outcome # "added"
            => /\ flows[f].calls = 0
               /\ \A i \in 1..Len(loads) : loads[i].flow # f

C16_Witness ==
    /\ starts = <<1, 2>>
    /\ Len(loads) = 2
    /\ loads[1].flow = 2
    /\ loads[2].flow = 1
    /\ getProjects = <<loads[1].project, loads[2].project>>
    /\ loads[1].project # loads[2].project

\* ------------------------------------------------------------------ C17
\* C17: setProjects stores the very array object it is passed and
\* getProjects returns that object: while state.projects refers to the
\* caller's array L, L has the store's contents after every addProject and
\* removeProject; an array got from getProjects() has the store's contents
\* as long as the store refers to it; a setProjects with another array
\* leaves the array referred to before as it was.
C17_ProjectsSharedByReference ==
    /\ getProjects = heap[ref]
    /\ last.op = "setProjects" => ref = passed
    /\ last.op \in {"addProject", "removeProject"} => ref = lastRef
    /\ (callerRef # "none" /\ passed = callerRef /\ lastRef = callerRef
            /\ last.op \in {"addProject", "removeProject"})
            => heap[callerRef] = getProjects
    /\ (got # "none" /\ lastRef = got /\ last.op \in {"addProject", "removeProject"})
            => heap[got] = getProjects
    /\ (last.op = "setProjects" /\ lastRef # ref)
            => heap[lastRef] = last.pre.projects

C17_Witness ==
    /\ callerRef = "L"
    /\ passed = "L"
    /\ got = "initial"
    /\ last.op = "removeProject"
    /\ last.arg = 1
    /\ last.pre.projects = <<1, 2>>
    /\ heap["L"] = <<2>>
    /\ heap["initial"] = <<1>>

\* ------------------------------------------------------------------ C18
\* C18: exit() is called only in a state where showExitDialog is true;
\* showExitDialog becomes true only by a click on the "Exit" menu item; a
\* click on Cancel sets showExitDialog to false and does not call exit().
C18_ExitOnlyFromDialog ==
    /\ (exited /\ ~lastToolbar.exited)
            => /\ lastToolbar.showExitDialog
               /\ last.op = "exit"
    /\ (showExitDialog /\ ~lastToolbar.showExitDialog) => last.op = "menuExit"
    /\ last.op = "menuExit" => showExitDialog /\ ~exited
    /\ last.op = "dialogCancel"
            => /\ lastToolbar.showExitDialog
               /\ ~showExitDialog
               /\ ~exited

C18_Witness ==
    /\ exited
    /\ last.op = "exit"
    /\ lastToolbar.showExitDialog
    /\ ~lastToolbar.exited
    /\ appWindow = "maximized"
    /\ isNavbarOpen

====
